---- MODULE Spec2Model ----
(***************************************************************************)
(* Model of the realtylink scraper: get_all_links.py (link collector),     *)
(* utils.py (field extractors), parser.py (AsyncParser and the script      *)
(* entry point) and data_saver.py (DataSaver).                             *)
(*                                                                         *)
(* Text is a sequence of one-character strings.  Python values of mixed    *)
(* type are tagged records: None, Str(chars), Lit("literal"), List(items). *)
(***************************************************************************)
EXTENDS Integers, Sequences, FiniteSets, TLC

VARIABLES
    LIST_OF_ALL_LINKS, \* get_all_links.LIST_OF_ALL_LINKS
    it,           \* number of completed iterations of the collector's for loop
    spc,          \* position of scrape_links_with_selenium
    loaded,       \* number of driver.get calls
    quits,        \* number of driver.quit calls
    scrapeErr,    \* exception that left scrape_links_with_selenium, or "none"
    resp,         \* what the network answers to the i-th fetch_data task
    taskpc,       \* position of the i-th fetch_data task
    data,         \* AsyncParser.data
    log,          \* ERROR entries written through logging.error
    mainpc,       \* position of the script entry point of parser.py
    file,         \* content of output.json, or NoFile
    soupIn,       \* document handed to a field extractor
    fieldOut      \* what the field extractor returned or raised

vars == <<LIST_OF_ALL_LINKS, it, spc, loaded, quits, scrapeErr,
          resp, taskpc, data, log, mainpc, file, soupIn, fieldOut>>

collectorVars == <<it, spc, loaded, quits, scrapeErr>>
pipelineVars == <<resp, taskpc, data, log, mainpc, file>>
utilVars == <<soupIn, fieldOut>>

----------------------------------------------------------------------------
(* Bounds *)

MaxAddrLen == 5      \* longest address text
MaxScriptLen == 5    \* longest script text
MaxLinks == 2        \* longest link list handed to parse_all_links_async
MaxAnchors == 2      \* most a-more-detail anchors on one listings page

----------------------------------------------------------------------------
(* Python values *)

None == [t |-> "None"]
Str(chars) == [t |-> "str", chars |-> chars]
Lit(s) == [t |-> "lit", s |-> s]
List(items) == [t |-> "list", items |-> items]

Returned(v) == [raised |-> "none", val |-> v]
Raised(e) == [raised |-> e]

RECURSIVE SeqsUpTo(_, _)
SeqsUpTo(S, n) ==
    IF n = 0 THEN {<<>>}
    ELSE LET shorter == SeqsUpTo(S, n - 1)
         IN  shorter \cup {Append(s, c) : s \in {x \in shorter : Len(x) = n - 1}, c \in S}

----------------------------------------------------------------------------
(* str methods used by utils.py *)

RECURSIVE lstrip(_)
lstrip(s) == IF s # <<>> /\ Head(s) = " " THEN lstrip(Tail(s)) ELSE s

RECURSIVE rstrip(_)
rstrip(s) ==
    IF s # <<>> /\ s[Len(s)] = " " THEN rstrip(SubSeq(s, 1, Len(s) - 1)) ELSE s

strip(s) == rstrip(lstrip(s))

\* str.find(ch): 0-based index of the first occurrence, -1 when there is none
find(s, ch) ==
    IF \E i \in 1..Len(s) : s[i] = ch
    THEN (CHOOSE i \in 1..Len(s) : s[i] = ch /\ \A j \in 1..(i - 1) : s[j] # ch) - 1
    ELSE -1

\* s[start:end] with Python's treatment of negative and out-of-range indices
Clamp(i, n) == IF i < 0 THEN (IF i + n < 0 THEN 0 ELSE i + n)
               ELSE (IF i > n THEN n ELSE i)
Slice(s, start, end) == SubSeq(s, Clamp(start, Len(s)) + 1, Clamp(end, Len(s)))

\* 1-based positions where the separator ", " starts
SepAt(s) == {i \in 1..(Len(s) - 1) : s[i] = "," /\ s[i + 1] = " "}
Min(S) == CHOOSE x \in S : \A y \in S : x <= y

\* str.split(", ", 1)
split_1(s) ==
    IF SepAt(s) = {} THEN <<s>>
    ELSE LET i == Min(SepAt(s))
         IN  <<SubSeq(s, 1, i - 1), SubSeq(s, i + 2, Len(s))>>

\* str.split(", ") without maxsplit
RECURSIVE split_all(_)
split_all(s) ==
    IF SepAt(s) = {} THEN <<s>>
    ELSE LET i == Min(SepAt(s))
         IN  <<SubSeq(s, 1, i - 1)>> \o split_all(SubSeq(s, i + 2, Len(s)))

----------------------------------------------------------------------------
(* json.loads over the script alphabet: "s" is a complete string literal,  *)
(* "M" is the text window.MosaicPhotoUrls (not JSON).                      *)

ScriptChars == {"M", "[", "]", ",", "s"}

Fail == [ok |-> FALSE]

RECURSIVE ParseValue(_, _)
RECURSIVE ParseElems(_, _, _)

\* a value starting at position i
ParseValue(txt, i) ==
    IF i > Len(txt) THEN Fail
    ELSE IF txt[i] = "s" THEN [ok |-> TRUE, val |-> Str(<<"s">>), next |-> i + 1]
    ELSE IF txt[i] = "["
         THEN IF i + 1 <= Len(txt) /\ txt[i + 1] = "]"
              THEN [ok |-> TRUE, val |-> List(<<>>), next |-> i + 2]
              ELSE ParseElems(txt, i + 1, <<>>)
    ELSE Fail

\* the elements of an array whose next element starts at position i
ParseElems(txt, i, acc) ==
    LET v == ParseValue(txt, i)
    IN  IF ~v.ok THEN Fail
        ELSE IF v.next > Len(txt) THEN Fail
        ELSE IF txt[v.next] = "]"
             THEN [ok |-> TRUE, val |-> List(Append(acc, v.val)), next |-> v.next + 1]
        ELSE IF txt[v.next] = ","
             THEN ParseElems(txt, v.next + 1, Append(acc, v.val))
        ELSE Fail

json_loads(txt) ==
    LET v == ParseValue(txt, 1)
    IN  IF v.ok /\ v.next = Len(txt) + 1 THEN Returned(v.val)
        ELSE Raised("JSONDecodeError")

----------------------------------------------------------------------------
(* The parsed document: for each soup.find of utils.py, the first matching *)
(* element (NoElem when there is none).                                    *)

NoElem == [t |-> "NoElem"]
Elem(text) == [t |-> "elem", text |-> text]

\* the div class=carac-value element with its first nested span
Carac(span) == [t |-> "elem", span |-> span]

AddressOnly(e) ==
    [h2 |-> e, script |-> NoElem, price |-> NoElem, cac |-> NoElem,
     carac |-> NoElem, descr |-> NoElem, title |-> NoElem]

ScriptOnly(e) ==
    [h2 |-> NoElem, script |-> e, price |-> NoElem, cac |-> NoElem,
     carac |-> NoElem, descr |-> NoElem, title |-> NoElem]

----------------------------------------------------------------------------
(* utils.py *)

parse_address_nomaxsplit(soup) ==
    IF soup.h2 # NoElem
    THEN LET address_text == strip(soup.h2.text)
             address_parts == split_all(address_text)
         IN  IF Len(address_parts) = 2
             THEN Returned(<<Str(address_text), Str(address_parts[2])>>)
             ELSE Returned(<<Str(address_text), None>>)
    ELSE Returned(None)

parse_address(soup) ==
    IF soup.h2 # NoElem
    THEN LET address_text == strip(soup.h2.text)
             address_parts == split_1(address_text)
         IN  IF Len(address_parts) = 2
             THEN Returned(<<Str(address_text), Str(address_parts[2])>>)
             ELSE Returned(<<Str(address_text), None>>)
    ELSE Returned(None)

\* soup.find("script", string=lambda s: "window.MosaicPhotoUrls" in s)
find_script(soup) ==
    IF soup.script # NoElem /\ (\E i \in 1..Len(soup.script.text) : soup.script.text[i] = "M")
    THEN soup.script
    ELSE NoElem

parse_photo_array(soup) ==
    LET script_tag == find_script(soup)
    IN  IF script_tag # NoElem
        THEN LET script_text == script_tag.text
                 start_index == find(script_text, "[")
                 end_index == find(script_text, "]") + 1
                 photo_array_str == Slice(script_text, start_index, end_index)
             IN  json_loads(photo_array_str)
        ELSE Returned(Lit("Script tag not found."))

\* str.split(): the maximal runs of non-blank characters
RECURSIVE split_ws(_)
split_ws(s) ==
    LET t == lstrip(s)
    IN  IF t = <<>> THEN <<>>
        ELSE LET blanks == {i \in 1..Len(t) : t[i] = " "}
                 n == IF blanks = {} THEN Len(t) ELSE Min(blanks) - 1
             IN  <<SubSeq(t, 1, n)>> \o split_ws(SubSeq(t, n + 1, Len(t)))

parse_price(soup) ==
    IF soup.price # NoElem
    THEN LET price_text == split_ws(soup.price.text)
         IN  IF Len(price_text) < 3 THEN Raised("IndexError")
             ELSE Returned(Str(price_text[2] \o price_text[3]))
    ELSE Returned(Lit("Price element not found."))

parse_bedrooms(soup) ==
    IF soup.cac # NoElem THEN Returned(Str(strip(soup.cac.text)))
    ELSE Returned(Lit("Bedrooms element not found."))

parse_living_area(soup) ==
    IF soup.carac # NoElem
    THEN IF soup.carac.span = NoElem THEN Raised("AttributeError")
         ELSE Returned(Str(strip(soup.carac.span.text)))
    ELSE Returned(Lit("Living area element not found."))

parse_description(soup) ==
    IF soup.descr # NoElem THEN Returned(Str(strip(soup.descr.text)))
    ELSE Returned(Lit("No description available."))

parse_page_title(soup) ==
    IF soup.title # NoElem THEN Returned(Str(strip(soup.title.text)))
    ELSE Returned(None)

----------------------------------------------------------------------------
(* get_all_links.py *)

base_url == "https://realtylink.org"
num_pages == 3

\* href attribute values: a path, or a complete URL of another site
Rel(path) == [t |-> "rel", path |-> path]
Abs(origin, path) == [t |-> "abs", origin |-> origin, path |-> path]
Url(origin, path) == [t |-> "url", origin |-> origin, path |-> path]

Hrefs == {Rel("/en/1"), Rel("/en/2"), Abs("https://other.example", "/x")}

urljoin(base, href) ==
    IF href.t = "rel" THEN Url(base, href.path) ELSE Url(href.origin, href.path)

NotFoundMsg ==
    <<"E", "l", "e", "m", "e", "n", "t", "s", " ", "<", "a", " ", "c", "l",
      "a", "s", "s", "=", "'", "a", "-", "m", "o", "r", "e", "-", "d", "e",
      "t", "a", "i", "l", "'", ">", " ", "n", "o", "t", " ", "f", "o", "u",
      "n", "d", ".">>

\* anchors: the href values of the a.a-more-detail anchors of the page
get_all_links_from_page(anchors) ==
    LET list_of_links == [k \in 1..Len(anchors) |-> urljoin(base_url, anchors[k])]
    IN  IF list_of_links # <<>> THEN List(list_of_links) ELSE Str(NotFoundMsg)

\* list.extend(iterable): a str is iterated character by character
extend(list, iterable) ==
    IF iterable.t = "list" THEN list \o iterable.items
    ELSE list \o [k \in 1..Len(iterable.chars) |-> Str(<<iterable.chars[k]>>)]

AnchorLists == SeqsUpTo(Hrefs, MaxAnchors)

\* webdriver.Chrome()
ScrapeStart ==
    /\ spc = "start"
    /\ spc' = "loop"
    /\ UNCHANGED <<LIST_OF_ALL_LINKS, it, loaded, quits, scrapeErr, pipelineVars, utilVars>>

\* one iteration in which the "next" control is found and clicked
Iteration ==
    /\ spc = "loop" /\ it < num_pages
    /\ \E anchors \in AnchorLists :
          LIST_OF_ALL_LINKS' = extend(LIST_OF_ALL_LINKS, get_all_links_from_page(anchors))
    /\ loaded' = loaded + 1
    /\ it' = it + 1
    /\ UNCHANGED <<spc, quits, scrapeErr, pipelineVars, utilVars>>

IterationNextAbsent_swallowed ==
    /\ spc = "loop" /\ it < num_pages
    /\ \E anchors \in AnchorLists :
          LIST_OF_ALL_LINKS' = extend(LIST_OF_ALL_LINKS, get_all_links_from_page(anchors))
    /\ loaded' = loaded + 1
    /\ it' = it + 1
    /\ scrapeErr' = "NoSuchElementException"
    /\ UNCHANGED <<spc, quits, pipelineVars, utilVars>>

\* one iteration in which driver.find_element finds no "next" control
IterationNextAbsent ==
    /\ spc = "loop" /\ it < num_pages
    /\ \E anchors \in AnchorLists :
          LIST_OF_ALL_LINKS' = extend(LIST_OF_ALL_LINKS, get_all_links_from_page(anchors))
    /\ loaded' = loaded + 1
    /\ scrapeErr' = "NoSuchElementException"
    /\ spc' = "finally"
    /\ UNCHANGED <<it, quits, pipelineVars, utilVars>>

\* one iteration in which requests.get raises after driver.get
IterationFetchFails ==
    /\ spc = "loop" /\ it < num_pages
    /\ loaded' = loaded + 1
    /\ scrapeErr' = "RequestException"
    /\ spc' = "finally"
    /\ UNCHANGED <<LIST_OF_ALL_LINKS, it, quits, pipelineVars, utilVars>>

LoopEnd ==
    /\ spc = "loop" /\ it = num_pages
    /\ spc' = "finally"
    /\ UNCHANGED <<LIST_OF_ALL_LINKS, it, loaded, quits, scrapeErr, pipelineVars, utilVars>>

\* finally: driver.quit(), then return or re-raise
Finally ==
    /\ spc = "finally"
    /\ quits' = quits + 1
    /\ spc' = IF scrapeErr = "none" THEN "returned" ELSE "raised"
    /\ UNCHANGED <<LIST_OF_ALL_LINKS, it, loaded, scrapeErr, pipelineVars, utilVars>>

scrape_links_with_selenium ==
    \/ ScrapeStart
    \/ Iteration
    \/ IterationNextAbsent
    \/ IterationFetchFails
    \/ LoopEnd
    \/ Finally

InitLinks ==
    /\ LIST_OF_ALL_LINKS = <<>>
    /\ it = 0 /\ spc = "start" /\ loaded = 0 /\ quits = 0 /\ scrapeErr = "none"
    /\ resp = <<>> /\ taskpc = <<>> /\ data = <<>> /\ log = <<>>
    /\ mainpc = "idle" /\ file = [t |-> "NoFile"]
    /\ soupIn = NoElem /\ fieldOut = [raised |-> "idle"]

SpecLinks == InitLinks /\ [][scrape_links_with_selenium]_vars

----------------------------------------------------------------------------
(* parser.py: AsyncParser *)

\* the dict built by parse_link (lines 130-140)
Record_lastlink(link, soup) ==
    [Link |-> LIST_OF_ALL_LINKS[Len(LIST_OF_ALL_LINKS)],
     PageTitle |-> parse_page_title(soup).val,
     Region |-> parse_address(soup).val[2],
     Address |-> parse_address(soup).val[1],
     Description |-> parse_description(soup).val,
     Pictures |-> parse_photo_array(soup).val,
     Price |-> parse_price(soup).val,
     Bedrooms |-> parse_bedrooms(soup).val,
     Area |-> parse_living_area(soup).val]

Record(link, soup) ==
    [Link |-> link,
     PageTitle |-> parse_page_title(soup).val,
     Region |-> parse_address(soup).val[2],
     Address |-> parse_address(soup).val[1],
     Description |-> parse_description(soup).val,
     Pictures |-> parse_photo_array(soup).val,
     Price |-> parse_price(soup).val,
     Bedrooms |-> parse_bedrooms(soup).val,
     Area |-> parse_living_area(soup).val]

\* the first exception raised inside the try block of parse_link, or "none"
parse_link_exception(soup) ==
    IF parse_bedrooms(soup).raised # "none" THEN parse_bedrooms(soup).raised
    ELSE IF parse_living_area(soup).raised # "none" THEN parse_living_area(soup).raised
    ELSE IF parse_photo_array(soup).raised # "none" THEN parse_photo_array(soup).raised
    ELSE IF parse_price(soup).raised # "none" THEN parse_price(soup).raised
    ELSE IF parse_address(soup).val = None THEN "TypeError"
    ELSE "none"

ErrorEntry(what, subject, err) ==
    [level |-> "ERROR", what |-> what, subject |-> subject, err |-> err]

\* parse_link: self.data and the log after the call
parse_link(link, soup, d, l) ==
    IF parse_link_exception(soup) = "none"
    THEN [data |-> Append(d, Record(link, soup)), log |-> l]
    ELSE [data |-> d, log |-> Append(l, ErrorEntry("parse", link, parse_link_exception(soup)))]

\* exceptions of the HTTP layer that derive from aiohttp.ClientError
ClientErrors == {"ClientConnectorError", "ServerTimeoutError", "ClientResponseError"}
\* asyncio.TimeoutError (the session's total timeout) does not
FetchErrors == ClientErrors \cup {"TimeoutError"}

Tasks == 1..Len(LIST_OF_ALL_LINKS)

\* parse_all_links_async up to its await: one fetch_data task per link
StartGather ==
    /\ mainpc = "start"
    /\ mainpc' = "gather"
    /\ taskpc' = [i \in Tasks |-> "get"]
    /\ UNCHANGED <<LIST_OF_ALL_LINKS, collectorVars, resp, data, log, file, utilVars>>

\* fetch_data resumes from session.get: the request failed, or the status
\* line arrived and raise_for_status ran
GetResponse(i) ==
    /\ mainpc = "gather" /\ taskpc[i] = "get"
    /\ IF resp[i].kind = "ok"
       THEN /\ taskpc' = [taskpc EXCEPT ![i] = "text"]
            /\ log' = log
       ELSE IF resp[i].kind \in ClientErrors
       THEN /\ taskpc' = [taskpc EXCEPT ![i] = "done"]
            /\ log' = Append(log, ErrorEntry("fetch", LIST_OF_ALL_LINKS[i], resp[i].kind))
       ELSE /\ taskpc' = [taskpc EXCEPT ![i] = "raised"]
            /\ log' = log
    /\ UNCHANGED <<LIST_OF_ALL_LINKS, collectorVars, resp, data, mainpc, file, utilVars>>

\* fetch_data resumes from response.text(): initialize_soup, parse_link
ReadBody(i) ==
    /\ mainpc = "gather" /\ taskpc[i] = "text"
    /\ LET r == parse_link(LIST_OF_ALL_LINKS[i], resp[i].soup, data, log)
       IN  data' = r.data /\ log' = r.log
    /\ taskpc' = [taskpc EXCEPT ![i] = "done"]
    /\ UNCHANGED <<LIST_OF_ALL_LINKS, collectorVars, resp, mainpc, file, utilVars>>

GatherReturn_first ==
    /\ mainpc = "gather"
    /\ \E i \in Tasks : taskpc[i] = "done"
    /\ mainpc' = "save"
    /\ UNCHANGED <<LIST_OF_ALL_LINKS, collectorVars, resp, taskpc, data, log, file, utilVars>>

\* asyncio.gather returns: every task has returned
GatherReturn ==
    /\ mainpc = "gather"
    /\ \A i \in Tasks : taskpc[i] = "done"
    /\ mainpc' = "save"
    /\ UNCHANGED <<LIST_OF_ALL_LINKS, collectorVars, resp, taskpc, data, log, file, utilVars>>

\* asyncio.gather re-raises the exception of a task; it leaves
\* parse_all_links_async and run_until_complete, and the script ends
GatherRaise ==
    /\ mainpc = "gather"
    /\ \E i \in Tasks : taskpc[i] = "raised"
    /\ mainpc' = "crashed"
    /\ UNCHANGED <<LIST_OF_ALL_LINKS, collectorVars, resp, taskpc, data, log, file, utilVars>>

----------------------------------------------------------------------------
(* data_saver.py *)

\* DataSaver(async_parser.data).save_data_to_json(): the file is written
SaveData ==
    /\ mainpc = "save"
    /\ file' = [t |-> "json", records |-> data]
    /\ mainpc' = "exit"
    /\ UNCHANGED <<LIST_OF_ALL_LINKS, collectorVars, resp, taskpc, data, log, utilVars>>

\* save_data_to_json: open or json.dump raises, the error is logged
SaveFails ==
    /\ mainpc = "save"
    /\ log' = Append(log, ErrorEntry("save", "output.json", "OSError"))
    /\ mainpc' = "exit"
    /\ UNCHANGED <<LIST_OF_ALL_LINKS, collectorVars, resp, taskpc, data, file, utilVars>>

----------------------------------------------------------------------------
(* The script entry point of parser.py on a link list left by the collector *)

Txt == <<"a">>

GoodPage ==
    [h2 |-> Elem(<<"a", ",", " ", "a">>), script |-> Elem(<<"M", "[", "s", "]">>),
     price |-> Elem(<<"a", " ", "a", " ", "a">>), cac |-> Elem(<<" ", "a">>),
     carac |-> Carac(Elem(Txt)), descr |-> Elem(Txt), title |-> Elem(Txt)]
NoAddressPage == [GoodPage EXCEPT !.h2 = NoElem]
ShortPricePage == [GoodPage EXCEPT !.price = Elem(<<"a", " ", "a">>)]
BadPhotoPage == [GoodPage EXCEPT !.script = Elem(<<"M", "[", "s">>)]
NoSpanPage == [GoodPage EXCEPT !.carac = Carac(NoElem)]
BarePage == AddressOnly(Elem(Txt))

Pages == {GoodPage, NoAddressPage, ShortPricePage, BadPhotoPage, NoSpanPage, BarePage}

Responses == {[kind |-> k] : k \in FetchErrors} \cup {[kind |-> "ok", soup |-> pg] : pg \in Pages}

Urls == {urljoin(base_url, Rel("/en/1")), urljoin(base_url, Rel("/en/2"))}

Init ==
    /\ LIST_OF_ALL_LINKS \in SeqsUpTo(Urls, MaxLinks)
    /\ it = num_pages /\ spc = "returned" /\ loaded = num_pages /\ quits = 1
    /\ scrapeErr = "none"
    /\ resp \in [1..Len(LIST_OF_ALL_LINKS) -> Responses]
    /\ taskpc = <<>> /\ data = <<>> /\ log = <<>>
    /\ mainpc = "start" /\ file = [t |-> "NoFile"]
    /\ soupIn = NoElem /\ fieldOut = [raised |-> "idle"]

Next ==
    \/ StartGather
    \/ \E i \in Tasks : GetResponse(i)
    \/ \E i \in Tasks : ReadBody(i)
    \/ GatherReturn
    \/ GatherRaise
    \/ SaveData
    \/ SaveFails

Spec == Init /\ [][Next]_vars

----------------------------------------------------------------------------
(* Field extractors applied to bounded inputs *)

AddrChars == {"a", ",", " "}

InitIdle ==
    /\ LIST_OF_ALL_LINKS = <<>>
    /\ it = 0 /\ spc = "idle" /\ loaded = 0 /\ quits = 0
    /\ scrapeErr = "none"
    /\ resp = <<>> /\ taskpc = <<>> /\ data = <<>> /\ log = <<>>
    /\ mainpc = "idle" /\ file = [t |-> "NoFile"]

InitAddress ==
    /\ InitIdle
    /\ soupIn \in {AddressOnly(NoElem)}
                  \cup {AddressOnly(Elem(s)) : s \in SeqsUpTo(AddrChars, MaxAddrLen)}
    /\ fieldOut = [raised |-> "pending"]

CallParseAddress ==
    /\ fieldOut = [raised |-> "pending"]
    /\ fieldOut' = parse_address(soupIn)
    /\ UNCHANGED <<LIST_OF_ALL_LINKS, collectorVars, pipelineVars, soupIn>>

SpecAddress == InitAddress /\ [][CallParseAddress]_vars

InitPhoto ==
    /\ InitIdle
    /\ soupIn \in {ScriptOnly(NoElem)}
                  \cup {ScriptOnly(Elem(s)) : s \in SeqsUpTo(ScriptChars, MaxScriptLen)}
    /\ fieldOut = [raised |-> "pending"]

CallParsePhotoArray ==
    /\ fieldOut = [raised |-> "pending"]
    /\ fieldOut' = parse_photo_array(soupIn)
    /\ UNCHANGED <<LIST_OF_ALL_LINKS, collectorVars, pipelineVars, soupIn>>

SpecPhoto == InitPhoto /\ [][CallParsePhotoArray]_vars

----------------------------------------------------------------------------
(* Properties of parse_address *)

HasComma(t) == \E i \in 1..Len(t) : t[i] = ","

AddressCalled == fieldOut.raised = "none" /\ soupIn.h2 # NoElem

\* C8 as stated: with an address element, a trimmed text that contains a
\* comma gives as region the text strictly after the first ", " separator,
\* and a trimmed text without a comma gives the full trimmed text as address
\* and null as region.
C8_AsStated ==
    AddressCalled =>
        LET t == strip(soupIn.h2.text)
        IN  IF HasComma(t)
            THEN \E i \in 1..(Len(t) - 1) :
                    /\ t[i] = "," /\ t[i + 1] = " "
                    /\ \A j \in 1..(i - 1) : ~(t[j] = "," /\ t[j + 1] = " ")
                    /\ fieldOut.val[2] = Str(SubSeq(t, i + 2, Len(t)))
            ELSE fieldOut.val = <<Str(t), None>>

\* C8 amended: with an address element, a trimmed text that contains the
\* separator ", " gives the full trimmed text as address and the text strictly
\* after the first ", " as region; a trimmed text that does not contain ", "
\* (whether or not it contains a comma) gives the full trimmed text as address
\* and null as region.
C8_RegionAfterFirstSeparator ==
    AddressCalled =>
        LET t == strip(soupIn.h2.text)
        IN  IF \E i \in 1..(Len(t) - 1) : t[i] = "," /\ t[i + 1] = " "
            THEN \E i \in 1..(Len(t) - 1) :
                    /\ t[i] = "," /\ t[i + 1] = " "
                    /\ \A j \in 1..(i - 1) : ~(t[j] = "," /\ t[j + 1] = " ")
                    /\ fieldOut.val = <<Str(t), Str(SubSeq(t, i + 2, Len(t)))>>
            ELSE fieldOut.val = <<Str(t), None>>

\* parse_address has returned a region for a text with two separators
C8_Witness ==
    /\ AddressCalled
    /\ Cardinality(SepAt(strip(soupIn.h2.text))) = 2
    /\ fieldOut.val[2] # None

----------------------------------------------------------------------------
(* Properties of parse_photo_array *)

PhotoCalled == fieldOut.raised # "pending" /\ find_script(soupIn) # NoElem

\* C9 as stated: for a script text containing the marker, the result is the
\* JSON value of the substring from the first "[" up to and including the
\* first "]" that occurs after that "[".
C9_AsStated ==
    PhotoCalled =>
        LET t == soupIn.script.text
        IN  \A a \in 1..Len(t), b \in 1..Len(t) :
               ( /\ t[a] = "[" /\ \A j \in 1..(a - 1) : t[j] # "["
                 /\ a < b /\ t[b] = "]" /\ \A j \in (a + 1)..(b - 1) : t[j] # "]" )
               => fieldOut = json_loads(SubSeq(t, a, b))

----------------------------------------------------------------------------
(* Properties of scrape_links_with_selenium *)

ListingUrls == {urljoin(base_url, h) : h \in Hrefs}

\* C6 as stated: every element of LIST_OF_ALL_LINKS is the href of an
\* a-more-detail anchor resolved against the base URL; a page without such an
\* anchor appends nothing.
C6_AsStated == \A k \in DOMAIN LIST_OF_ALL_LINKS : LIST_OF_ALL_LINKS[k] \in ListingUrls

\* C7: when the "next" control is absent on an iteration, no later page is
\* loaded, the error leaves scrape_links_with_selenium and the browser session
\* is quit; the session is quit exactly once, also when all num_pages
\* iterations succeed, and never before the loop has ended.
C7_AbortAndQuitOnce ==
    /\ quits <= 1
    /\ scrapeErr = "NoSuchElementException" =>
          spc \in {"finally", "raised"} /\ loaded = it + 1
    /\ spc = "raised" => quits = 1 /\ scrapeErr # "none"
    /\ spc = "returned" =>
          quits = 1 /\ scrapeErr = "none" /\ it = num_pages /\ loaded = num_pages
    /\ spc \in {"start", "loop", "finally"} => quits = 0

\* the "next" control was absent on the last requested page; the error has
\* left the function and the session is quit
C7_Witness ==
    /\ spc = "raised" /\ scrapeErr = "NoSuchElementException"
    /\ it = num_pages - 1 /\ loaded = num_pages /\ quits = 1

----------------------------------------------------------------------------
(* Properties of the listing pipeline *)

Occ(u) == {i \in DOMAIN LIST_OF_ALL_LINKS : LIST_OF_ALL_LINKS[i] = u}
OkTasks(u) == {i \in Occ(u) : resp[i].kind = "ok"}
FailTasks(u) == {i \in Occ(u) : resp[i].kind # "ok"}
RecordsOf(u) == {k \in DOMAIN data : data[k].Link = u}
FetchEntries(u) == {k \in DOMAIN log : log[k].what = "fetch" /\ log[k].subject = u}
LinkEntries(u) ==
    {k \in DOMAIN log : log[k].what \in {"fetch", "parse"} /\ log[k].subject = u}
Finished == mainpc \in {"save", "exit", "crashed"}

\* C1 as stated: every kind of fetch failure is caught and logged inside
\* fetch_data, the failing link contributes no record, the other links are
\* still fetched and parsed, and the run reaches the output writer.
C1_AsStated ==
    /\ \A i \in DOMAIN taskpc : taskpc[i] # "raised"
    /\ mainpc # "crashed"
    /\ Finished =>
          \A u \in Urls :
             /\ Cardinality(FetchEntries(u)) = Cardinality(FailTasks(u))
             /\ Cardinality(RecordsOf(u)) <= Cardinality(OkTasks(u))

\* C2 as stated: every successfully fetched page that parse_link has processed
\* has a record in data, whichever fields are missing or malformed.
C2_AsStated ==
    \A u \in Urls :
       Cardinality(RecordsOf(u))
          = Cardinality({i \in OkTasks(u) : i \in DOMAIN taskpc /\ taskpc[i] = "done"})

\* C3 as stated: after parse_all_links_async has finished, every link
\* occurrence whose fetch succeeded has one record, and every link occurrence
\* whose fetch failed has one error entry naming the link.
C3_AsStated ==
    Finished =>
       \A u \in Urls :
          /\ Cardinality(RecordsOf(u)) = Cardinality(OkTasks(u))
          /\ Cardinality(LinkEntries(u)) = Cardinality(FailTasks(u))

\* data after processing the links one at a time with the same responses
RECURSIVE Sequential(_, _)
Sequential(i, d) ==
    IF i > Len(LIST_OF_ALL_LINKS) THEN d
    ELSE IF resp[i].kind = "ok"
         THEN Sequential(i + 1, parse_link(LIST_OF_ALL_LINKS[i], resp[i].soup, d, <<>>).data)
    ELSE IF resp[i].kind \in ClientErrors THEN Sequential(i + 1, d)
    ELSE d

SameMultiset(d, e) ==
    /\ Len(d) = Len(e)
    /\ \A k \in DOMAIN d :
          Cardinality({j \in DOMAIN d : d[j] = d[k]}) = Cardinality({j \in DOMAIN e : e[j] = d[k]})

\* C4 as stated: for every completion order of the responses the final data
\* list is the same multiset of records, the one that processing the links one
\* at a time produces.
C4_AsStated == Finished => SameMultiset(data, Sequential(1, <<>>))

\* C5 as stated: no two records of data have the same Link.
C5_AsStated ==
    \A j \in DOMAIN data, k \in DOMAIN data : j # k => data[j].Link # data[k].Link

\* C5 amended: every record's Link is an element of LIST_OF_ALL_LINKS and the
\* number of records with a given Link never exceeds the number of times that
\* link occurs in LIST_OF_ALL_LINKS.
C5_LinkCountBounded ==
    /\ \A k \in DOMAIN data : Occ(data[k].Link) # {}
    /\ \A u \in Urls : Cardinality(RecordsOf(u)) <= Cardinality(Occ(u))

\* a link collected twice has produced two records with the same Link
C5_Witness ==
    /\ mainpc = "exit"
    /\ \E j \in DOMAIN data, k \in DOMAIN data : j # k /\ data[j].Link = data[k].Link

\* C10: save_data_to_json starts only when every fetch_data task has returned,
\* data does not change from then on, a written file holds exactly data, and
\* when gather raises nothing is saved.
C10_SaveAfterAllTasks ==
    /\ [](mainpc \in {"save", "exit"} => \A i \in DOMAIN taskpc : taskpc[i] = "done")
    /\ [][(mainpc \in {"save", "exit"}) => (data' = data)]_vars
    /\ [](file.t = "json" => mainpc = "exit" /\ file.records = data)
    /\ [](mainpc = "crashed" =>
             file.t = "NoFile" /\ \A k \in DOMAIN log : log[k].what # "save")
    /\ [][(mainpc = "crashed") => (mainpc' = "crashed")]_vars

\* the file has been written with the records of two tasks
C10_Witness ==
    /\ mainpc = "exit" /\ file.t = "json"
    /\ Len(LIST_OF_ALL_LINKS) = 2 /\ Len(file.records) = 2

====
